---- MODULE Spec2Model ----
(***************************************************************************)
(* FlareOS backend: the request handlers of src/main.py over the document  *)
(* store (collections chatthread, memoryitem, codedoc).                    *)
(*                                                                         *)
(* Strings are sequences of one-character strings, so that strip, slicing, *)
(* concatenation and ObjectId parsing are computed and not assumed.        *)
(* An Optional[str] is a record [some, str]; the result of find_one is a    *)
(* set holding zero or one document.                                       *)
(***************************************************************************)
EXTENDS Integers, Sequences, FiniteSets, TLC

VARIABLES
    db,          \* TRUE when the store handle is available, FALSE when it is None
    clock,       \* the last value read from time.time(), in ms
    nextOid,     \* the counter of the store's ObjectId generator
    chatthread,  \* collection: set of ChatThread documents
    memoryitem,  \* collection: set of MemoryItem documents
    codedoc,     \* collection: set of CodeDoc documents
    proc,        \* per worker: the position and locals of its send_message request
    resp,        \* what the last step did and, if it ended a request, the response
    nSends,      \* history: send_message requests that reached the store
    removed,     \* history: the _ids delete_thread has removed
    nNew,        \* history: per client, send_message requests that returned a new thread
    lastUpsert,  \* history: per (client, key), the last upsert_memory (value, ts)
    lastSave     \* history: per client, the last save_code (html, updatedAt returned)

vars == <<db, clock, nextOid, chatthread, memoryitem, codedoc, proc, resp,
          nSends, removed, nNew, lastUpsert, lastSave>>

----------------------------------------------------------------------------
(* Bounds of the model *)

MaxClock == 2      \* time.time() is read as a value in 1..MaxClock
MaxInserts == 2    \* documents the store may ever insert (ObjectIds generated)
MaxSends == 2      \* send_message requests that may reach the store, one worker
MaxConcSends == 3  \* the same with two workers

Clients == {"c1", "c2"}
Workers == {1, 2}
Keys == {"k1", "k2"}
Values == {<<"v","1">>, <<"v","2">>}
Htmls == {<<>>, <<"<","p",">">>}

FirstOid == 10     \* the generator starts here, so that ids print with a hex letter

----------------------------------------------------------------------------
(* Python strings *)

Whitespace == {" ", "\t", "\n"}

RECURSIVE LStrip(_)
LStrip(s) ==
    IF s # <<>> /\ Head(s) \in Whitespace THEN LStrip(Tail(s)) ELSE s

RECURSIVE RStrip(_)
RStrip(s) ==
    IF s # <<>> /\ s[Len(s)] \in Whitespace
    THEN RStrip(SubSeq(s, 1, Len(s) - 1)) ELSE s

Strip(s) == RStrip(LStrip(s))

Slice(s, n) == SubSeq(s, 1, IF Len(s) < n THEN Len(s) ELSE n)

Repeat(ch, n) == [i \in 1..n |-> ch]

TitleLen == 30

NewChat == <<"N","e","w"," ","C","h","a","t">>

EchoPrefix == <<"E","c","h","o",":"," ">>

----------------------------------------------------------------------------
(* bson.ObjectId: a 12-byte number, written as 24 hexadecimal digits *)

OidLen == 24

HexLower == <<"0","1","2","3","4","5","6","7","8","9","a","b","c","d","e","f">>
HexUpper == <<"0","1","2","3","4","5","6","7","8","9","A","B","C","D","E","F">>

HexChars == {HexLower[i] : i \in 1..16} \cup {HexUpper[i] : i \in 1..16}

HexVal(ch) == CHOOSE v \in 0..15 : HexLower[v + 1] = ch \/ HexUpper[v + 1] = ch

\* The digit of weight 16^(OidLen - i) of the number n.
RECURSIVE Pow16(_)
Pow16(k) == IF k = 0 THEN 1 ELSE 16 * Pow16(k - 1)

Digit(n, i) == IF OidLen - i > 6 THEN 0 ELSE (n \div Pow16(OidLen - i)) % 16

\* str(oid): 24 lower-case hexadecimal digits.
OidStr(oid) == [i \in 1..OidLen |-> HexLower[Digit(oid, i) + 1]]

\* The same identifier as a client may also write it.
OidStrUpper(oid) == [i \in 1..OidLen |-> HexUpper[Digit(oid, i) + 1]]

\* ObjectId(s) raises InvalidId unless s is 24 hexadecimal digits.
ObjectIdValid(s) == Len(s) = OidLen /\ \A i \in 1..Len(s) : s[i] \in HexChars

RECURSIVE HexToInt(_)
HexToInt(s) ==
    IF s = <<>> THEN 0
    ELSE 16 * HexToInt(SubSeq(s, 1, Len(s) - 1)) + HexVal(s[Len(s)])

ObjectId(s) == HexToInt(s)

----------------------------------------------------------------------------
(* Requests *)

NoneStr == [some |-> FALSE, str |-> <<>>]
Some(s) == [some |-> TRUE, str |-> s]

\* Python truthiness of an Optional[str]: None and "" are both falsy.
Truthy(opt) == opt.some /\ opt.str # <<>>

Messages == {<<>>, <<" ">>, <<" ","h","i","\t">>, Repeat("a", TitleLen),
             <<" ">> \o Repeat("a", TitleLen + 1) \o <<" ">>}

OidStrings == {OidStr(n) : n \in FirstOid..(FirstOid + MaxInserts - 1)}
                  \cup {OidStrUpper(FirstOid)}

BadIdStrings == {<<"x","y","z">>, Repeat("g", OidLen)}

\* thread_id of a ChatRequest: absent, empty, malformed, or well-formed
ThreadIds == {NoneStr, Some(<<>>)} \cup {Some(s) : s \in BadIdStrings \cup OidStrings}

\* thread_id path parameter of DELETE /api/chats/{client_id}/{thread_id}
PathThreadIds == BadIdStrings \cup OidStrings

\* int(time.time() * 1000): the clock does not run backwards
Nows == {t \in {clock, clock + 1} : t <= MaxClock}

CanInsert == nextOid < FirstOid + MaxInserts

----------------------------------------------------------------------------
(* send_message: locals *)

UserMsg(m, now) == [role |-> "user", content |-> m, ts |-> now]

AssistantMsg(m, now) == [role |-> "assistant", content |-> EchoPrefix \o m, ts |-> now]

Title(m) == IF m # <<>> THEN Slice(Strip(m), TitleLen) ELSE NewChat

----------------------------------------------------------------------------
(* Store operations on chatthread *)

\* Fault: a lookup that leaves client_id out of the filter.
FindAnyOwner(coll, oid, c) == {t \in coll : t._id = oid}

\* find_one({"_id": _id, "client_id": client_id})
FindOwned(coll, oid, c) == {t \in coll : t._id = oid /\ t.client_id = c}

\* find_one({"_id": _id})
FindById(coll, oid) == {t \in coll : t._id = oid}

\* Fault: $set of messages where the handler uses $push.
SetMessages(coll, oid, now, msgs) ==
    {IF t._id = oid
     THEN [t EXCEPT !.updatedAt = now, !.messages = msgs]
     ELSE t : t \in coll}

\* update_one({"_id": _id}, {$set: {updatedAt}, $setOnInsert: {title}, $push: {messages: {$each}}})
\* without upsert: a filter that matches nothing changes nothing.
PushMessages(coll, oid, now, msgs) ==
    {IF t._id = oid
     THEN [t EXCEPT !.updatedAt = now, !.messages = @ \o msgs]
     ELSE t : t \in coll}

NewThread(oid, c, m, now) ==
    [_id |-> oid, client_id |-> c, title |-> Title(m),
     messages |-> <<UserMsg(m, now), AssistantMsg(m, now)>>,
     createdAt |-> now, updatedAt |-> now]

\* Fault: a delete that leaves client_id out of the filter.
DeleteById(coll, oid, c) == coll \ {t \in coll : t._id = oid}

\* Fault: a delete that leaves _id out of the filter and removes every match.
DeleteOfClient(coll, oid, c) == coll \ {t \in coll : t.client_id = c}

\* delete_one({"_id": _id, "client_id": client_id})
DeleteOwned(coll, oid, c) == coll \ FindOwned(coll, oid, c)

\* t["id"] = str(t.pop("_id"))
ThreadJson(t) ==
    [id |-> OidStr(t._id), client_id |-> t.client_id, title |-> t.title,
     messages |-> t.messages, createdAt |-> t.createdAt, updatedAt |-> t.updatedAt]

\* Fault: sort("updatedAt", 1), oldest first.
SortedAscending(coll, c) ==
    LET S == {t \in coll : t.client_id = c}
        n == Cardinality(S)
    IN  {f \in [1..n -> S] :
            /\ \A i, j \in 1..n : i # j => f[i] # f[j]
            /\ \A i \in 1..n : i < n => f[i].updatedAt <= f[i + 1].updatedAt}

\* find({"client_id": client_id}).sort("updatedAt", -1): every order the sort may give
SortedThreads(coll, c) ==
    LET S == {t \in coll : t.client_id = c}
        n == Cardinality(S)
    IN  {f \in [1..n -> S] :
            /\ \A i, j \in 1..n : i # j => f[i] # f[j]
            /\ \A i \in 1..n : i < n => f[i].updatedAt >= f[i + 1].updatedAt}

----------------------------------------------------------------------------
(* Worker state of a send_message request, and responses *)

Idle == [pc |-> "idle", client_id |-> "", thread_id |-> NoneStr, message |-> <<>>,
         now |-> 0, oid |-> 0, wrote |-> FALSE]

\* status 0: the request has not ended. handled = FALSE: an exception left the
\* handler that is no HTTPException (the framework answers 500).
\* step: the part of the handler that ran ("begin", "update", "return").
SendResp(step, c, tid, status, detail, handled, wrote, thread) ==
    [op |-> "send_message", step |-> step, client_id |-> c, thread_id |-> tid,
     status |-> status, detail |-> detail, handled |-> handled, wrote |-> wrote,
     thread |-> thread]

DeleteResp(c, s, status, detail, deleted) ==
    [op |-> "delete_thread", client_id |-> c, thread_id |-> s, status |-> status,
     detail |-> detail, deleted |-> deleted]

ListResp(status, detail, c, threads) ==
    [op |-> "list_threads", status |-> status, detail |-> detail, client_id |-> c,
     threads |-> threads]

Init ==
    /\ db \in BOOLEAN
    /\ clock = 1
    /\ nextOid = FirstOid
    /\ chatthread = {}
    /\ memoryitem = {}
    /\ codedoc = {}
    /\ proc = [w \in Workers |-> Idle]
    /\ resp = [op |-> "start", status |-> 0]
    /\ nSends = 0
    /\ removed = {}
    /\ nNew = [c \in Clients |-> 0]
    /\ lastUpsert = [c \in Clients |-> [k \in Keys |-> {}]]
    /\ lastSave = [c \in Clients |-> {}]

\* POST /api/chats/send, lines 62-81 (thread_id given) or 62-99 (new thread):
\* up to and including the request's first store operation.
send_message(w, c, tid, m) ==
    /\ proc[w].pc = "idle"
    /\ UNCHANGED <<db, memoryitem, codedoc, removed, nNew, lastUpsert, lastSave>>
    /\ IF ~db
       THEN /\ resp' = SendResp("begin", c, tid, 500, "Database unavailable", TRUE, FALSE, {})
            /\ UNCHANGED <<clock, nextOid, chatthread, proc, nSends>>
       ELSE \E now \in Nows :
            /\ clock' = now
            /\ IF Truthy(tid)
               THEN IF ~ObjectIdValid(tid.str)
                    THEN /\ resp' = SendResp("begin", c, tid, 400, "Invalid thread id", TRUE, FALSE, {})
                         /\ UNCHANGED <<nextOid, chatthread, proc, nSends>>
                    ELSE IF FindOwned(chatthread, ObjectId(tid.str), c) = {}
                    THEN /\ resp' = SendResp("begin", c, tid, 404, "Thread not found", TRUE, FALSE, {})
                         /\ UNCHANGED <<nextOid, chatthread, proc, nSends>>
                    ELSE /\ nSends' = nSends + 1
                         /\ proc' = [proc EXCEPT ![w] =
                                [pc |-> "update", client_id |-> c, thread_id |-> tid,
                                 message |-> m, now |-> now, oid |-> ObjectId(tid.str), wrote |-> FALSE]]
                         /\ resp' = SendResp("begin", c, tid, 0, "", TRUE, FALSE, {})
                         /\ UNCHANGED <<nextOid, chatthread>>
               ELSE /\ CanInsert
                    /\ nSends' = nSends + 1
                    /\ chatthread' = chatthread \cup {NewThread(nextOid, c, m, now)}
                    /\ nextOid' = nextOid + 1
                    /\ proc' = [proc EXCEPT ![w] =
                           [pc |-> "find_new", client_id |-> c, thread_id |-> tid,
                            message |-> m, now |-> now, oid |-> nextOid, wrote |-> TRUE]]
                    /\ resp' = SendResp("begin", c, tid, 0, "", TRUE, TRUE, {})

\* lines 82-89: update_one on the thread found at line 79
send_update(w) ==
    LET p == proc[w]
        matched == FindById(chatthread, p.oid) # {}
    IN
    /\ p.pc = "update"
    /\ chatthread' = PushMessages(chatthread, p.oid, p.now,
                                  <<UserMsg(p.message, p.now), AssistantMsg(p.message, p.now)>>)
    /\ proc' = [proc EXCEPT ![w].pc = "find", ![w].wrote = matched]
    /\ resp' = SendResp("update", p.client_id, p.thread_id, 0, "", TRUE, matched, {})
    /\ UNCHANGED <<db, clock, nextOid, memoryitem, codedoc, nSends, removed, nNew,
                   lastUpsert, lastSave>>

\* lines 90 or 100, then 102-103: read the thread back and return it.
\* thread.pop on None raises AttributeError, which no handler catches.
send_return(w) ==
    LET p == proc[w]
        thread == FindById(chatthread, p.oid)
    IN
    /\ p.pc \in {"find", "find_new"}
    /\ IF thread = {}
       THEN /\ resp' = SendResp("return", p.client_id, p.thread_id, 500,
                                "Internal Server Error", FALSE, p.wrote, {})
            /\ UNCHANGED nNew
       ELSE /\ resp' = SendResp("return", p.client_id, p.thread_id, 200, "", TRUE, p.wrote,
                                {ThreadJson(t) : t \in thread})
            /\ nNew' = IF p.pc = "find_new"
                       THEN [nNew EXCEPT ![p.client_id] = @ + 1]
                       ELSE nNew
    /\ proc' = [proc EXCEPT ![w] = Idle]
    /\ UNCHANGED <<db, clock, nextOid, chatthread, memoryitem, codedoc, nSends, removed,
                   lastUpsert, lastSave>>

\* DELETE /api/chats/{client_id}/{thread_id}
delete_thread(c, s) ==
    /\ UNCHANGED <<db, clock, nextOid, memoryitem, codedoc, proc, nSends, nNew,
                   lastUpsert, lastSave>>
    /\ IF ~db
       THEN /\ resp' = DeleteResp(c, s, 500, "Database unavailable", FALSE)
            /\ UNCHANGED <<chatthread, removed>>
       ELSE IF ~ObjectIdValid(s)
       THEN /\ resp' = DeleteResp(c, s, 400, "Invalid thread id", FALSE)
            /\ UNCHANGED <<chatthread, removed>>
       ELSE LET after == DeleteOwned(chatthread, ObjectId(s), c)
                deleted_count == Cardinality(chatthread) - Cardinality(after)
            IN  /\ chatthread' = after
                /\ removed' = removed \cup {t._id : t \in chatthread \ after}
                /\ resp' = DeleteResp(c, s, 200, "", deleted_count = 1)

\* GET /api/chats/{client_id}
list_threads(c) ==
    /\ UNCHANGED <<db, clock, nextOid, chatthread, memoryitem, codedoc, proc, nSends,
                   removed, nNew, lastUpsert, lastSave>>
    /\ IF ~db
       THEN resp' = ListResp(500, "Database unavailable", c, <<>>)
       ELSE \E threads \in SortedThreads(chatthread, c) :
                resp' = ListResp(200, "", c,
                                 [i \in 1..Len(threads) |-> ThreadJson(threads[i])])

\* A request is served by the first idle worker of the pool.
FirstIdle(w) == proc[w].pc = "idle" /\ \A v \in Workers : v < w => proc[v].pc # "idle"

ShortMessages == {<<>>, <<"h","i">>}

\* The thread handlers, one send_message request at a time; delete_thread and
\* list_threads requests run between its steps.
Next ==
    \/ \E c \in Clients, tid \in ThreadIds :
          send_message(1, c, tid, <<"h","i">>) /\ nSends' <= MaxSends
    \/ send_update(1)
    \/ send_return(1)
    \/ \E c \in Clients, s \in PathThreadIds : delete_thread(c, s)
    \/ \E c \in Clients : list_threads(c)

Spec == Init /\ [][Next]_vars

\* The thread handlers with two send_message requests of one client in flight,
\* on new threads and on the first thread.
NextConc ==
    \/ \E w \in Workers, tid \in {NoneStr, Some(OidStr(FirstOid))}, m \in ShortMessages :
          FirstIdle(w) /\ send_message(w, "c1", tid, m) /\ nSends' <= MaxConcSends
    \/ \E w \in Workers : send_update(w)
    \/ \E w \in Workers : send_return(w)
    \/ delete_thread("c1", OidStr(FirstOid))

SpecConc == Init /\ [][NextConc]_vars

\* New threads only, over every kind of message.
NextTitle ==
    \/ \E c \in Clients, tid \in {NoneStr, Some(<<>>)}, m \in Messages :
          send_message(1, c, tid, m)
    \/ send_return(1)

SpecTitle == Init /\ [][NextTitle]_vars

----------------------------------------------------------------------------
(* Memory handlers *)

\* find({"client_id": client_id, "key": key})
MemMatch(coll, c, k) == {d \in coll : d.client_id = c /\ d.key = k}

\* Fault: insert_one where the handler upserts.
MemInsertAlways(coll, c, k, v, now, oid) ==
    coll \cup {[_id |-> oid, client_id |-> c, key |-> k, value |-> v, ts |-> now]}

\* update_one({"client_id", "key"}, {$set: {value, ts}}, upsert=True): the first
\* matching document is updated; with none, one is inserted under a new _id.
MemUpsert(coll, c, k, v, now, oid) ==
    IF MemMatch(coll, c, k) = {}
    THEN coll \cup {[_id |-> oid, client_id |-> c, key |-> k, value |-> v, ts |-> now]}
    ELSE LET d == CHOOSE d \in MemMatch(coll, c, k) : TRUE
         IN  (coll \ {d}) \cup {[d EXCEPT !.value = v, !.ts = now]}

\* delete_one({"client_id", "key"}): removes the first matching document
MemDelete(coll, c, k) ==
    IF MemMatch(coll, c, k) = {} THEN coll
    ELSE coll \ {CHOOSE d \in MemMatch(coll, c, k) : TRUE}

\* it["id"] = str(it.pop("_id"))
MemJson(d) ==
    [id |-> OidStr(d._id), client_id |-> d.client_id, key |-> d.key,
     value |-> d.value, ts |-> d.ts]

\* find({"client_id": client_id}).sort("ts", -1): every order the sort may give
SortedItems(coll, c) ==
    LET S == {d \in coll : d.client_id = c}
        n == Cardinality(S)
    IN  {f \in [1..n -> S] :
            /\ \A i, j \in 1..n : i # j => f[i] # f[j]
            /\ \A i \in 1..n : i < n => f[i].ts >= f[i + 1].ts}

MemResp(op, status, detail, c, items, deleted) ==
    [op |-> op, status |-> status, detail |-> detail, client_id |-> c,
     items |-> items, deleted |-> deleted]

\* POST /api/memory
upsert_memory(c, k, v) ==
    /\ UNCHANGED <<db, chatthread, codedoc, proc, nSends, removed, nNew, lastSave>>
    /\ IF ~db
       THEN /\ resp' = MemResp("upsert_memory", 500, "Database unavailable", c, <<>>, FALSE)
            /\ UNCHANGED <<clock, nextOid, memoryitem, lastUpsert>>
       ELSE \E now \in Nows :
            LET inserts == MemMatch(memoryitem, c, k) = {}
                after == MemUpsert(memoryitem, c, k, v, now, nextOid)
            IN  /\ inserts => CanInsert
                /\ clock' = now
                /\ memoryitem' = after
                /\ nextOid' = IF inserts THEN nextOid + 1 ELSE nextOid
                /\ lastUpsert' = [lastUpsert EXCEPT ![c][k] = {[value |-> v, ts |-> now]}]
                /\ \E doc \in MemMatch(after, c, k) :
                       resp' = MemResp("upsert_memory", 200, "", c, <<MemJson(doc)>>, FALSE)

\* DELETE /api/memory/{client_id}/{key}
delete_memory(c, k) ==
    /\ UNCHANGED <<db, clock, nextOid, chatthread, codedoc, proc, nSends, removed, nNew,
                   lastUpsert, lastSave>>
    /\ IF ~db
       THEN /\ resp' = MemResp("delete_memory", 500, "Database unavailable", c, <<>>, FALSE)
            /\ UNCHANGED memoryitem
       ELSE LET after == MemDelete(memoryitem, c, k)
                deleted_count == Cardinality(memoryitem) - Cardinality(after)
            IN  /\ memoryitem' = after
                /\ resp' = MemResp("delete_memory", 200, "", c, <<>>, deleted_count = 1)

\* GET /api/memory/{client_id}
get_memory(c) ==
    /\ UNCHANGED <<db, clock, nextOid, chatthread, memoryitem, codedoc, proc, nSends,
                   removed, nNew, lastUpsert, lastSave>>
    /\ IF ~db
       THEN resp' = MemResp("get_memory", 500, "Database unavailable", c, <<>>, FALSE)
       ELSE \E items \in SortedItems(memoryitem, c) :
                resp' = MemResp("get_memory", 200, "", c,
                                [i \in 1..Len(items) |-> MemJson(items[i])], FALSE)

NextMemory ==
    \/ \E c \in Clients, k \in Keys, v \in Values : upsert_memory(c, k, v)
    \/ \E c \in Clients, k \in Keys : delete_memory(c, k)
    \/ \E c \in Clients : get_memory(c)

SpecMemory == Init /\ [][NextMemory]_vars

----------------------------------------------------------------------------
(* Code document handlers *)

\* find_one({"client_id": client_id})
CodeMatch(coll, c) == {d \in coll : d.client_id = c}

\* Fault: an update that sets html and leaves updatedAt as it was.
CodeUpsertKeepsTime(coll, c, h, now, oid) ==
    IF {d \in coll : d.client_id = c} = {}
    THEN coll \cup {[_id |-> oid, client_id |-> c, html |-> h, updatedAt |-> now]}
    ELSE {IF d.client_id = c THEN [d EXCEPT !.html = h] ELSE d : d \in coll}

\* update_one({"client_id"}, {$set: {html, updatedAt}}, upsert=True)
CodeUpsert(coll, c, h, now, oid) ==
    IF CodeMatch(coll, c) = {}
    THEN coll \cup {[_id |-> oid, client_id |-> c, html |-> h, updatedAt |-> now]}
    ELSE LET d == CHOOSE d \in CodeMatch(coll, c) : TRUE
         IN  (coll \ {d}) \cup {[d EXCEPT !.html = h, !.updatedAt = now]}

\* updatedAt of a response: a set, empty when the key is absent from the JSON
CodeResp(op, status, detail, c, html, updatedAt) ==
    [op |-> op, status |-> status, detail |-> detail, client_id |-> c,
     html |-> html, updatedAt |-> updatedAt]

\* GET /api/code/{client_id}
get_code(c) ==
    /\ UNCHANGED <<db, clock, nextOid, chatthread, memoryitem, codedoc, proc, nSends,
                   removed, nNew, lastUpsert, lastSave>>
    /\ IF ~db
       THEN resp' = CodeResp("get_code", 500, "Database unavailable", c, <<>>, {})
       ELSE IF CodeMatch(codedoc, c) = {}
       THEN resp' = CodeResp("get_code", 200, "", c, <<>>, {})
       ELSE \E doc \in CodeMatch(codedoc, c) :
                resp' = CodeResp("get_code", 200, "", c, doc.html, {doc.updatedAt})

\* POST /api/code
save_code(c, h) ==
    /\ UNCHANGED <<db, chatthread, memoryitem, proc, nSends, removed, nNew, lastUpsert>>
    /\ IF ~db
       THEN /\ resp' = CodeResp("save_code", 500, "Database unavailable", c, h, {})
            /\ UNCHANGED <<clock, nextOid, codedoc, lastSave>>
       ELSE \E now \in Nows :
            LET inserts == CodeMatch(codedoc, c) = {} IN
            /\ inserts => CanInsert
            /\ clock' = now
            /\ codedoc' = CodeUpsert(codedoc, c, h, now, nextOid)
            /\ nextOid' = IF inserts THEN nextOid + 1 ELSE nextOid
            /\ resp' = CodeResp("save_code", 200, "", c, h, {now})
            /\ lastSave' = [lastSave EXCEPT ![c] = {[html |-> h, updatedAt |-> now]}]

NextCode ==
    \/ \E c \in Clients, h \in Htmls : save_code(c, h)
    \/ \E c \in Clients : get_code(c)

SpecCode == Init /\ [][NextCode]_vars

----------------------------------------------------------------------------
(* Claims about the thread handlers *)

AllIdle == \A w \in Workers : proc[w].pc = "idle"

\* C2: with the store available, delete_thread(B, id) on a thread owned by A # B
\* answers deleted = false and changes no document of any collection; and a thread
\* leaves chatthread only in a delete_thread step whose client_id is the thread's
\* and whose thread_id parses to the thread's _id.
C2_DeleteOwnershipIsolation ==
    [][/\ ( /\ db
            /\ resp'.op = "delete_thread"
            /\ ObjectIdValid(resp'.thread_id)
            /\ \E t \in chatthread : /\ t._id = ObjectId(resp'.thread_id)
                                     /\ t.client_id # resp'.client_id )
          => /\ resp'.status = 200
             /\ resp'.deleted = FALSE
             /\ chatthread' = chatthread
             /\ memoryitem' = memoryitem
             /\ codedoc' = codedoc
       /\ \A t \in chatthread :
            (\A u \in chatthread' : u._id # t._id)
               => /\ resp'.op = "delete_thread"
                  /\ resp'.client_id = t.client_id
                  /\ ObjectIdValid(resp'.thread_id)
                  /\ ObjectId(resp'.thread_id) = t._id
      ]_vars

\* A delete_thread by another client has just answered, and the thread is still there.
C2_Witness ==
    /\ resp.op = "delete_thread"
    /\ resp.status = 200
    /\ resp.deleted = FALSE
    /\ ObjectIdValid(resp.thread_id)
    /\ \E t \in chatthread : /\ t._id = ObjectId(resp.thread_id)
                             /\ t.client_id # resp.client_id

\* C7: with the store available and a well-formed thread_id, delete_thread on an
\* existing owned thread answers deleted = true and removes exactly that document;
\* on anything else, and so on every later delete of a removed thread, it answers
\* 200 with deleted = false and leaves chatthread as it is.
C7_DeleteIdempotent ==
    [][( /\ db
         /\ resp'.op = "delete_thread"
         /\ ObjectIdValid(resp'.thread_id) )
       => LET oid == ObjectId(resp'.thread_id)
              owned == {t \in chatthread : t._id = oid /\ t.client_id = resp'.client_id}
          IN  /\ resp'.status = 200
              /\ IF owned # {}
                 THEN /\ resp'.deleted = TRUE
                      /\ Cardinality(owned) = 1
                      /\ chatthread' = chatthread \ owned
                 ELSE /\ resp'.deleted = FALSE
                      /\ chatthread' = chatthread
              /\ oid \in removed => /\ resp'.deleted = FALSE
                                    /\ chatthread' = chatthread
      ]_vars

\* The second delete of a thread has just answered deleted = false.
C7_Witness ==
    /\ resp.op = "delete_thread"
    /\ resp.status = 200
    /\ resp.deleted = FALSE
    /\ ObjectIdValid(resp.thread_id)
    /\ ObjectId(resp.thread_id) \in removed

\* The first part of a send_message request whose thread_id tid is given has run
\* for client c, and tid names no thread of c: it must answer 400 for a tid that
\* does not parse and 404 for one that parses, and change no thread.
RejectsUnownedThread ==
    LET tid == resp'.thread_id.str IN
    /\ resp'.handled
    /\ resp'.status = IF ObjectIdValid(tid) THEN 404 ELSE 400
    /\ chatthread' = chatthread
    /\ proc' = proc

NamesNoOwnedThread(c, tid) ==
    \/ ~ObjectIdValid(tid)
    \/ \A t \in chatthread : ~(t._id = ObjectId(tid) /\ t.client_id = c)

\* C6 as stated: with the store available, every send_message whose thread_id is
\* given (any string) and names no thread of the client is rejected with 400 (not
\* parsable) or 404 (parsable), and no thread is created or modified.
C6_AnyUnownedThreadIdRejected ==
    [][( /\ db
         /\ resp'.op = "send_message"
         /\ resp'.step = "begin"
         /\ resp'.thread_id.some
         /\ NamesNoOwnedThread(resp'.client_id, resp'.thread_id.str) )
       => RejectsUnownedThread
      ]_vars

\* C6 amended: the same for every thread_id that is not the empty string.
C6_NonEmptyUnownedThreadIdRejected ==
    [][( /\ db
         /\ resp'.op = "send_message"
         /\ resp'.step = "begin"
         /\ resp'.thread_id.some
         /\ resp'.thread_id.str # <<>>
         /\ NamesNoOwnedThread(resp'.client_id, resp'.thread_id.str) )
       => RejectsUnownedThread
      ]_vars

\* A send_message naming the thread of another client has just answered 404.
C6_Witness ==
    /\ resp.op = "send_message"
    /\ resp.step = "begin"
    /\ resp.status = 404
    /\ resp.thread_id.some
    /\ ObjectIdValid(resp.thread_id.str)
    /\ \E t \in chatthread : /\ t._id = ObjectId(resp.thread_id.str)
                             /\ t.client_id # resp.client_id

\* C8: with the store available, no request in flight and no thread deleted so far,
\* list_threads(c) answers exactly the threads of c, as many as the send_message
\* requests of c that returned a new thread, none of another client, each with an
\* updatedAt greater than or equal to that of the next.
C8_ListThreadsCountAndOrder ==
    ( /\ db
      /\ resp.op = "list_threads"
      /\ AllIdle
      /\ removed = {} )
    => LET c == resp.client_id
           ts == resp.threads
       IN  /\ resp.status = 200
           /\ Len(ts) = nNew[c]
           /\ \A i \in 1..Len(ts) : ts[i].client_id = c
           /\ \A i, j \in 1..Len(ts) : i # j => ts[i].id # ts[j].id
           /\ {ts[i].id : i \in 1..Len(ts)}
                 = {OidStr(t._id) : t \in {u \in chatthread : u.client_id = c}}
           /\ \A i \in 1..Len(ts) : i < Len(ts) => ts[i].updatedAt >= ts[i + 1].updatedAt

\* list_threads has just answered two threads of one client, the second-created first.
C8_Witness ==
    /\ resp.op = "list_threads"
    /\ resp.status = 200
    /\ AllIdle
    /\ removed = {}
    /\ Len(resp.threads) = 2
    /\ nNew[resp.client_id] = 2
    /\ resp.threads[1].id = OidStr(FirstOid + 1)
    /\ resp.threads[1].updatedAt > resp.threads[2].updatedAt

\* C10: every send_message with a thread_id ends either returning the thread with
\* the two messages it built, or with a handled error (400, 404, or 500 "Database
\* unavailable") without having written.
C10_SendEndsHandled ==
    [][( /\ resp'.op = "send_message"
         /\ resp'.status # 0
         /\ Truthy(resp'.thread_id) )
       => \/ /\ resp'.status = 200
             /\ \E w \in Workers :
                  /\ proc[w].pc = "find"
                  /\ proc'[w] = Idle
                  /\ \E t \in resp'.thread : \E i \in 1..Len(t.messages) :
                       /\ i < Len(t.messages)
                       /\ t.messages[i] = UserMsg(proc[w].message, proc[w].now)
                       /\ t.messages[i + 1] = AssistantMsg(proc[w].message, proc[w].now)
          \/ /\ resp'.handled
             /\ resp'.status \in {400, 404, 500}
             /\ resp'.wrote = FALSE
             /\ chatthread' = chatthread
      ]_vars

----------------------------------------------------------------------------
(* Claims about concurrent send_message requests *)

\* messages is a concatenation of (user, assistant) pairs
PairsOK(msgs) ==
    /\ Len(msgs) % 2 = 0
    /\ \A i \in 1..Len(msgs) :
         i % 2 = 1 =>
            /\ msgs[i].role = "user"
            /\ msgs[i + 1].role = "assistant"
            /\ msgs[i + 1].content = <<"E","c","h","o",":"," ">> \o msgs[i].content
            /\ msgs[i + 1].ts = msgs[i].ts

IsPrefix(a, b) == Len(a) <= Len(b) /\ SubSeq(b, 1, Len(a)) = a

\* C4: in every reachable state each thread's messages is a concatenation of
\* (user, "Echo: " + the same content, same ts) pairs; every step keeps the earlier
\* messages of every thread as a prefix and adds nothing or one pair; and the
\* update_one of a send on an existing thread puts the pair it built at the end.
C4_MessagesAppendOnlyInPairs ==
    /\ [](\A t \in chatthread : PairsOK(t.messages))
    /\ [][/\ \A t \in chatthread : \A u \in chatthread' :
               u._id = t._id =>
                  /\ IsPrefix(t.messages, u.messages)
                  /\ Len(u.messages) - Len(t.messages) \in {0, 2}
          /\ (resp'.op = "send_message" /\ resp'.step = "update" /\ resp'.wrote)
               => \E w \in Workers :
                    /\ proc[w].pc = "update"
                    /\ proc'[w].pc = "find"
                    /\ \E t \in chatthread : \E u \in chatthread' :
                         /\ t._id = proc[w].oid
                         /\ u._id = proc[w].oid
                         /\ u.messages = t.messages \o
                               << [role |-> "user", content |-> proc[w].message,
                                   ts |-> proc[w].now],
                                  [role |-> "assistant",
                                   content |-> <<"E","c","h","o",":"," ">> \o proc[w].message,
                                   ts |-> proc[w].now] >>
         ]_vars

\* Two requests on the same thread have both looked the thread up before either
\* wrote, and both have now written: the thread holds three pairs.
C4_Witness ==
    /\ proc[1].pc = "find"
    /\ proc[2].pc = "find"
    /\ proc[1].oid = proc[2].oid
    /\ proc[1].message # proc[2].message
    /\ \E t \in chatthread : t._id = proc[1].oid /\ Len(t.messages) = 6

\* C5: in every step, every thread that stays in chatthread keeps its createdAt and
\* has an updatedAt greater than or equal to the one it had.
C5_UpdatedAtNeverDecreases ==
    [][\A t \in chatthread : \A u \in chatthread' :
          u._id = t._id => /\ u.updatedAt >= t.updatedAt
                           /\ u.createdAt = t.createdAt
      ]_vars

----------------------------------------------------------------------------
(* Claim about the title of a new thread *)

\* C1: every thread created by send_message without a thread_id has as title its
\* message stripped and cut to its first 30 characters, or "New Chat" when the
\* stripped message is empty. (The first message of a thread holds the message of
\* the request that created it.)
C1_TitleOfNewThread ==
    \A t \in chatthread :
       LET stripped == Strip(t.messages[1].content) IN
       t.title = IF stripped = <<>>
                 THEN <<"N","e","w"," ","C","h","a","t">>
                 ELSE SubSeq(stripped, 1, IF Len(stripped) < 30 THEN Len(stripped) ELSE 30)

----------------------------------------------------------------------------
(* Claim about the memory handlers *)

\* C3: with the store available, memoryitem holds at most one document per
\* (client_id, key); if one exists, its value and ts are those of the last
\* upsert_memory of the pair; and get_memory(c) answers exactly one item per stored
\* key of c, with that value.
C3_OneItemPerKeyLatestValue ==
    db => \A c \in Clients, k \in Keys :
            LET docs == {d \in memoryitem : d.client_id = c /\ d.key = k} IN
            /\ Cardinality(docs) <= 1
            /\ \A d \in docs : lastUpsert[c][k] = {[value |-> d.value, ts |-> d.ts]}
            /\ (resp.op = "get_memory" /\ resp.client_id = c)
                 => /\ resp.status = 200
                    /\ Cardinality({i \in 1..Len(resp.items) : resp.items[i].key = k})
                          = Cardinality(docs)
                    /\ \A i \in 1..Len(resp.items) :
                         resp.items[i].key = k
                            => \E u \in lastUpsert[c][k] :
                                  /\ resp.items[i].value = u.value
                                  /\ resp.items[i].ts = u.ts

\* get_memory has just answered two items of which the first inserted carries the
\* later ts and the value v2: it was written again after the second was inserted.
C3_Witness ==
    /\ resp.op = "get_memory"
    /\ resp.status = 200
    /\ Len(resp.items) = 2
    /\ resp.items[1].id = OidStr(FirstOid)
    /\ resp.items[1].value = <<"v","2">>
    /\ resp.items[2].id = OidStr(FirstOid + 1)
    /\ resp.items[1].ts > resp.items[2].ts

----------------------------------------------------------------------------
(* Claim about the code document handlers *)

\* C9: with the store available, codedoc holds at most one document per client_id;
\* get_code(c) answers 200 with the html of the last save_code of c and the
\* updatedAt that save returned, or html = "" and no updatedAt when c never saved;
\* and save_code answers the updatedAt it stored.
C9_CodeRoundTrip ==
    db => /\ \A c \in Clients : Cardinality({d \in codedoc : d.client_id = c}) <= 1
          /\ resp.op = "get_code"
               => /\ resp.status = 200
                  /\ IF lastSave[resp.client_id] = {}
                     THEN resp.html = <<>> /\ resp.updatedAt = {}
                     ELSE \E s \in lastSave[resp.client_id] :
                             /\ resp.html = s.html
                             /\ resp.updatedAt = {s.updatedAt}
          /\ resp.op = "save_code"
               => /\ resp.status = 200
                  /\ lastSave[resp.client_id] = {[html |-> resp.html, updatedAt |-> u] :
                                                    u \in resp.updatedAt}
                  /\ Cardinality(resp.updatedAt) = 1

\* get_code has just answered the second save of the client that saved first: its
\* document is the first inserted and is newer than the one inserted after it.
C9_Witness ==
    /\ resp.op = "get_code"
    /\ resp.status = 200
    /\ resp.html = <<"<","p",">">>
    /\ \E d \in codedoc : \E e \in codedoc :
         /\ d.client_id = resp.client_id
         /\ d._id = FirstOid
         /\ e._id = FirstOid + 1
         /\ d.updatedAt > e.updatedAt
         /\ resp.updatedAt = {d.updatedAt}

====
